---------------------------- MODULE Spec2Model ----------------------------
(***************************************************************************)
(* State-machine model of the pyBAR pixel-hit Clusterizer                  *)
(* (host/analysis/RawDataConverter/Clusterizer.cpp, tag 1.0.1).            *)
(*                                                                         *)
(* m    the Clusterizer object's fields, the caller-owned arrays it reads  *)
(*      and writes (hitInfo, clusterInfo, clusterHitInfo) and, in fields   *)
(*      whose name starts with g_, history that the properties refer to    *)
(*      (which input hit sits in a cell, which hits a flood-fill took,     *)
(*      which outputs a cluster was written to).  No g_ field is ever read *)
(*      by a definition that models code.                                  *)
(* ctl  the position of the program: which call is running, the loop       *)
(*      index of addHits, the scan position of clusterize and the stack of *)
(*      active searchNextHits frames.                                      *)
(*                                                                         *)
(* The hit array handed to addHits is materialised hit by hit as the loop  *)
(* of addHits reads it (the code reads rHitInfo strictly left to right).   *)
(* The detector geometry and histogram sizes are scaled down.  The charge  *)
(* calibration map is all zero in this source (addHit never stores a       *)
(* charge: tCharge = -1), so the charge, x and y sums stay 0 and are left  *)
(* out; _runTime is a debug counter and is left out as well.               *)
(***************************************************************************)
EXTENDS Integers, Sequences, FiniteSets, TLC

VARIABLES m, ctl

vars == <<m, ctl>>

---------------------------------------------------------------------------
(* Build-time constants of the program (defines of the missing header),    *)
(* scaled down.                                                            *)
RAW_DATA_MAX_COLUMN == 3
RAW_DATA_MAX_ROW == 4
MAXBCID == 2
MAXTOTBINS == 4
MAXCLUSTERHITSBINS == 3

(* Bounds of the exploration.                                              *)
MaxHits == 2        \* hits fed to the engine over all addHits calls
MaxCalls == 5       \* public calls (setters, addHits, reset) per run

(* Bounds of the flood-fill specification SpecFill.                        *)
FillHits == 3       \* hits fed to the engine over all addHits calls
FillCalls == 3      \* public calls per run
FillColumns == {1, 2, 3}
FillRows == {1, 2, 4}

(* Bounds of the specification SpecParts of batches fed in parts.          *)
PartsHits == 3      \* hits fed to each engine over all batches
PartsInfoSizes == {1, PartsHits}
PartsHitInfoSizes == {PartsHits}

(* Values the callers pass to the setters and put into the hits.          *)
DistanceValues == {2}
BCIDValues == {0}
MinHitsValues == {2}
MaxHitsValues == {1}
TotCapValues == {1}
BufferSizes == {1, MaxHits}
HitBufferSizes == {1, MaxHits}
TotValues == {1, 2}
StatusValues == {1}
HitColumns == {1, 2}
HitRows == {1}

Indeterminate == -1   \* an unsigned field that was never initialised
NoHit == [idx |-> -1, event |-> 0, tot |-> -1, fresh |-> FALSE]

---------------------------------------------------------------------------
(* Integer conversions of the C++ code.                                    *)
U16(x) == x % 65536
(* a <= (unsigned int) b for an unsigned a below 2^31 and an int b: a     *)
(* negative b converts to 2^32 + b, which is above every such a.           *)
LeqUnsignedCast(a, b) == IF b < 0 THEN TRUE ELSE a <= b

RECURSIVE BitOr(_, _)
BitOr(a, b) ==
    IF a = 0 THEN b
    ELSE IF b = 0 THEN a
    ELSE (IF (a % 2 = 1) \/ (b % 2 = 1) THEN 1 ELSE 0) + 2 * BitOr(a \div 2, b \div 2)

(* Row-major linearisation used for _hitMap and _hitIndexMap.              *)
CellIndex(pCol, pRow, pRelBcid) ==
    pCol + pRow * RAW_DATA_MAX_COLUMN + pRelBcid * RAW_DATA_MAX_COLUMN * RAW_DATA_MAX_ROW

NCells == RAW_DATA_MAX_COLUMN * RAW_DATA_MAX_ROW * MAXBCID
Cells == 0 .. (NCells - 1)

(* Number of elements new[] is asked for in allocateResultHistograms, and  *)
(* the index range that clearResultHistograms and addClusterToResults      *)
(* address.                                                                *)
clusterTotsAllocated == (MAXTOTBINS - 1) + (MAXCLUSTERHITSBINS - 1) * MAXTOTBINS
TotIndex(iTot, iClusterHit) == iTot + iClusterHit * MAXTOTBINS
TotIndices == 0 .. (MAXTOTBINS * MAXCLUSTERHITSBINS - 1)

ZeroClusterInfo ==
    [eventNumber |-> 0, ID |-> 0, size |-> 0, Tot |-> 0,
     seed_column |-> 0, seed_row |-> 0, eventStatus |-> 0]

ZeroClusterHitInfo ==
    [eventNumber |-> 0, relativeBCID |-> 0, column |-> 0, row |-> 0, tot |-> 0,
     eventStatus |-> 0, clusterID |-> 0, isSeed |-> 0, clusterSize |-> 0,
     nCluster |-> 0]

---------------------------------------------------------------------------
(* Leaf operations on the object.                                          *)

hitExists(s, pCol, pRow, pRelBcid) ==
    /\ pCol >= 0 /\ pCol < RAW_DATA_MAX_COLUMN
    /\ pRow >= 0 /\ pRow < RAW_DATA_MAX_ROW
    /\ pRelBcid >= 0 /\ pRelBcid < MAXBCID
    /\ s.hitMap[CellIndex(pCol, pRow, pRelBcid)] # -1

deleteHit(s, pCol, pRow, pRelBcid) ==
    LET cell == CellIndex(pCol, pRow, pRelBcid)
        s1 == [s EXCEPT !.hitMap[cell] = -1,
                        !.nHits = @ - 1,
                        !.g_origin[cell] = NoHit]
    IN  IF s1.nHits = 0
        THEN [s1 EXCEPT !.minColHitPos = RAW_DATA_MAX_COLUMN - 1,
                        !.maxColHitPos = 0,
                        !.minRowHitPos = RAW_DATA_MAX_ROW - 1,
                        !.maxRowHitPos = 0,
                        !.bCIDfirstHit = -1,
                        !.bCIDlastHit = -1]
        ELSE s1

initHitMap(s) ==
    [s EXCEPT !.hitMap = [c \in Cells |-> -1],
              !.g_origin = [c \in Cells |-> NoHit],
              !.minColHitPos = RAW_DATA_MAX_COLUMN - 1,
              !.maxColHitPos = 0,
              !.minRowHitPos = RAW_DATA_MAX_ROW - 1,
              !.maxRowHitPos = 0,
              !.bCIDfirstHit = -1,
              !.bCIDlastHit = -1,
              !.nHits = 0]

(* The largest index of _clusterTots that the program has addressed, with  *)
(* the index k addressed now.                                              *)
TotAddressed(s, k) == IF k > s.g_totIndexMax THEN k ELSE s.g_totIndexMax

clearResultHistograms(s) ==
    [s EXCEPT !.clusterTots = [k \in TotIndices |-> 0],
              !.clusterHits = [k \in 0 .. (MAXCLUSTERHITSBINS - 1) |-> 0],
              !.g_totIndexMax =
                  TotAddressed(s, TotIndex(MAXTOTBINS - 1, MAXCLUSTERHITSBINS - 1))]

(* clearActualClusterData without lines 678-679: the tot sum and the size  *)
(* of the previous cluster are kept.                                       *)
clearActualClusterData_keepSums(s) ==
    [s EXCEPT !.actualRelativeClusterBCID = 0,
              !.actualClusterMaxTot = 0,
              !.actualClusterSeed_column = 0,
              !.actualClusterSeed_row = 0,
              !.actualClusterSeed_relbcid = 0,
              !.abortCluster = FALSE]

clearActualClusterData(s) ==
    [s EXCEPT !.actualClusterTot = 0,
              !.actualClusterSize = 0,
              !.actualRelativeClusterBCID = 0,
              !.actualClusterMaxTot = 0,
              !.actualClusterSeed_column = 0,
              !.actualClusterSeed_row = 0,
              !.actualClusterSeed_relbcid = 0,
              !.abortCluster = FALSE]

(* clearActualEventVariables without line 695: the cluster id is kept.     *)
clearActualEventVariables_keepID(s) ==
    [s EXCEPT !.actualEventNumber = 0,
              !.actualEventStatus = 0]

clearActualEventVariables(s) ==
    [s EXCEPT !.actualEventNumber = 0,
              !.actualEventStatus = 0,
              !.actualClusterID = 0]

reset(s) ==
    clearActualEventVariables(clearActualClusterData(clearResultHistograms(initHitMap(s))))

setStandardSettings(s) ==
    [s EXCEPT !.dx = 1, !.dy = 2, !.DbCID = 4,
              !.minClusterHits = 1, !.maxClusterHits = 9,
              !.nHits = 0,
              !.maxClusterHitTot = 13,
              !.createClusterHitInfoArray = FALSE,
              !.createClusterInfoArray = TRUE,
              !.minColHitPos = RAW_DATA_MAX_COLUMN - 1,
              !.maxColHitPos = 0,
              !.minRowHitPos = RAW_DATA_MAX_ROW - 1,
              !.maxRowHitPos = 0,
              !.maxHitTot = 13]

(* The memory before the constructor body runs: every field the            *)
(* constructor, setStandardSettings and reset write is overwritten below;  *)
(* the buffer sizes and _Nclusters stay uninitialised, and so do the cells *)
(* of _hitIndexMap.                                                        *)
RawObject ==
    [dx |-> 0, dy |-> 0, DbCID |-> 0, minClusterHits |-> 0, maxClusterHits |-> 0,
     maxClusterHitTot |-> 0, maxHitTot |-> 0,
     createClusterHitInfoArray |-> FALSE, createClusterInfoArray |-> FALSE,
     clusterInfo |-> << >>, clusterInfoSize |-> Indeterminate,
     clusterHitInfo |-> << >>, clusterHitInfoSize |-> Indeterminate,
     Nclusters |-> Indeterminate,
     hitInfo |-> << >>,
     hitMap |-> [c \in Cells |-> 0],
     hitIndexMap |-> [c \in Cells |-> Indeterminate],
     nHits |-> 0, bCIDfirstHit |-> 0, bCIDlastHit |-> 0,
     minColHitPos |-> 0, maxColHitPos |-> 0, minRowHitPos |-> 0, maxRowHitPos |-> 0,
     actualClusterTot |-> 0, actualClusterSize |-> 0,
     actualRelativeClusterBCID |-> 0, actualClusterMaxTot |-> 0,
     actualClusterSeed_column |-> 0, actualClusterSeed_row |-> 0,
     actualClusterSeed_relbcid |-> 0, abortCluster |-> FALSE,
     actualEventNumber |-> 0, actualEventStatus |-> 0, actualClusterID |-> 0,
     clusterHits |-> [k \in 0 .. (MAXCLUSTERHITSBINS - 1) |-> 0],
     clusterTots |-> [k \in TotIndices |-> 0],
     exc |-> FALSE,
     g_origin |-> [c \in Cells |-> NoHit],
     g_log |-> << >>,
     g_inserted |-> {},
     g_oob |-> {},
     g_entryEvent |-> 0,
     g_entryID |-> 0,
     g_passed |-> 0,
     g_oversize |-> 0,
     g_totIndexMax |-> -1,
     tHitLatches |-> TRUE]

Clusterizer == reset(setStandardSettings(RawObject))


---------------------------------------------------------------------------
(* addHit: one input hit is booked into the hit map.                       *)

LastLog(s) == s.g_log[Len(s.g_log)]

(* The test of line 312 answering that the cell is free even when it holds *)
(* a hit: a duplicate hit is booked over the first one and counted.        *)
CellIsFree_always(s, cell) == TRUE

(* Line 312.                                                               *)
CellIsFree(s, cell) == s.hitMap[cell] = -1

addHit(s, pHitIndex) ==
    LET h == s.hitInfo[pHitIndex + 1]
        tCol == U16(h.column - 1)
        tRow == U16(h.row - 1)
        tRelBcid == h.relativeBCID
        tTot == h.tot
        cell == CellIndex(tCol, tRow, tRelBcid)
        s1 == [s EXCEPT !.actualEventStatus = BitOr(h.eventStatus, @)]
        s2 == [s1 EXCEPT
                 !.bCIDfirstHit = IF s1.nHits = 0 THEN tRelBcid ELSE @,
                 !.bCIDlastHit = IF tRelBcid > @ THEN tRelBcid ELSE @,
                 !.maxColHitPos = IF tCol > @ THEN tCol ELSE @,
                 !.minColHitPos = IF tCol < @ THEN tCol ELSE @,
                 !.minRowHitPos = IF tRow < @ THEN tRow ELSE @,
                 !.maxRowHitPos = IF tRow > @ THEN tRow ELSE @]
        s3 == IF CellIsFree(s2, cell)
              THEN [s2 EXCEPT
                      !.hitMap[cell] = tTot,
                      !.hitIndexMap[cell] = pHitIndex,
                      !.nHits = @ + 1,
                      !.g_origin[cell] = [idx |-> pHitIndex, event |-> h.eventNumber,
                                          tot |-> tTot, fresh |-> TRUE],
                      !.g_inserted = @ \cup {pHitIndex}]
              ELSE s2
        s4 == IF s3.createClusterHitInfoArray
              THEN IF pHitIndex < s3.clusterHitInfoSize
                   THEN [s3 EXCEPT
                           !.clusterHitInfo[pHitIndex + 1] =
                               [@ EXCEPT !.eventNumber = h.eventNumber,
                                         !.relativeBCID = h.relativeBCID,
                                         !.column = h.column,
                                         !.row = h.row,
                                         !.tot = h.tot,
                                         !.eventStatus = h.eventStatus,
                                         !.isSeed = 0,
                                         !.clusterSize = 666,
                                         !.nCluster = 666]]
                   ELSE [s3 EXCEPT !.g_oob = @ \cup {"clusterHitInfo"}]
              ELSE s3
    IN  IF tTot > s.maxHitTot THEN s1 ELSE s4

---------------------------------------------------------------------------
(* searchNextHits: lines 355-397 run when a frame is entered; the search   *)
(* loops of lines 410-448 are resumed by searchNextHitsScan.               *)

(* The test of line 359 with > in place of >=: the first hit with the      *)
(* maximum tot stays the seed.                                             *)
IsNewSeed_first(s, tTot) == tTot > s.actualClusterMaxTot /\ tTot <= s.maxHitTot

(* Line 359.                                                               *)
IsNewSeed(s, tTot) == tTot >= s.actualClusterMaxTot /\ tTot <= s.maxHitTot

(* Line 355 left out: the hit is taken without being counted.              *)
CountHit_not(s) == s

(* Line 355.                                                               *)
CountHit(s) == [s EXCEPT !.actualClusterSize = @ + 1]

searchNextHitsEntry(s, pCol, pRow, pRelBcid) ==
    LET cell == CellIndex(pCol, pRow, pRelBcid)
        tTot == U16(s.hitMap[cell])
        s1 == CountHit(s)
        s2 == IF IsNewSeed(s1, tTot)
              THEN [s1 EXCEPT !.actualClusterSeed_column = pCol,
                              !.actualClusterSeed_row = pRow,
                              !.actualClusterSeed_relbcid = pRelBcid,
                              !.actualClusterMaxTot = tTot]
              ELSE s1
        inRange == s2.hitIndexMap[cell] < s2.clusterHitInfoSize
        s3 == IF s2.createClusterHitInfoArray /\ inRange
              THEN [s2 EXCEPT !.clusterHitInfo[s2.hitIndexMap[cell] + 1].clusterID =
                                  s2.actualClusterID]
              ELSE s2
        s4 == [s3 EXCEPT !.abortCluster =
                            IF tTot > s3.maxClusterHitTot THEN TRUE
                            ELSE IF s3.actualClusterSize > s3.maxClusterHits THEN TRUE
                            ELSE @,
                         !.actualClusterTot = @ + tTot,
                         !.g_log[Len(s3.g_log)].hits = @ \cup {s3.g_origin[cell]},
                         !.g_log[Len(s3.g_log)].taken =
                             Append(@, [col |-> pCol, row |-> pRow, tot |-> tTot])]
    IN  IF s2.createClusterHitInfoArray /\ ~inRange
        THEN [s2 EXCEPT !.exc = TRUE]
        ELSE deleteHit(s4, pCol, pRow, pRelBcid)

(* The call of searchNextHits that has just run lines 355-397 is the       *)
(* depth-th of the calls that are active: the log of the cluster keeps the *)
(* largest number of calls of its flood-fill that were active at once.     *)
Nested(s, depth) ==
    [s EXCEPT !.g_log[Len(s.g_log)].depth = IF depth > @ THEN depth ELSE @]

(* The eight search directions in the order of lines 414-445: up, up right,*)
(* right, down right, down, down left, left, up left.                      *)
DirX == <<0, 1, 1, 1, 0, -1, -1, -1>>
DirY == <<1, 1, 0, -1, -1, -1, 0, 1>>

NewFrame(s, pCol, pRow, pRelBcid) ==
    [pCol |-> pCol, pRow |-> pRow, pRelBcid |-> pRelBcid,
     lvl |-> "bcid", iDbCID |-> s.actualRelativeClusterBCID,
     iDx |-> 1, iDy |-> 1, dir |-> 1, latches |-> {}]

(* One latch for all eight directions: a frame that has followed one      *)
(* direction follows no other.                                             *)
Latched_any(f, d) == f.latches # {}

Latched(f, d) == d \in f.latches

RECURSIVE searchNextHitsScan(_, _)
searchNextHitsScan(s, f) ==
    CASE f.lvl = "bcid" ->
            IF /\ f.iDbCID <= s.actualRelativeClusterBCID + s.DbCID
               /\ LeqUnsignedCast(f.iDbCID, s.bCIDlastHit)
            THEN searchNextHitsScan(s, [f EXCEPT !.lvl = "dx", !.iDx = 1])
            ELSE [found |-> FALSE, frame |-> f, col |-> 0, row |-> 0, bcid |-> 0]
      [] f.lvl = "dx" ->
            IF f.iDx <= s.dx
            THEN searchNextHitsScan(s, [f EXCEPT !.lvl = "dy", !.iDy = 1])
            ELSE searchNextHitsScan(s, [f EXCEPT !.lvl = "bcid", !.iDbCID = @ + 1])
      [] f.lvl = "dy" ->
            IF f.iDy <= s.dy
            THEN searchNextHitsScan(s, [f EXCEPT !.lvl = "dir", !.dir = 1])
            ELSE searchNextHitsScan(s, [f EXCEPT !.lvl = "dx", !.iDx = @ + 1])
      [] f.lvl = "dir" ->
            LET c(d) == U16(f.pCol + DirX[d] * f.iDx)
                r(d) == U16(f.pRow + DirY[d] * f.iDy)
                b == U16(f.iDbCID)
                taken == {d \in f.dir .. 8 : hitExists(s, c(d), r(d), b) /\ ~Latched(f, d)}
                first == CHOOSE d \in taken : \A e \in taken : d <= e
            IN  IF taken = {}
                THEN searchNextHitsScan(s, [f EXCEPT !.lvl = "dy", !.iDy = @ + 1, !.dir = 9])
                ELSE [found |-> TRUE,
                      frame |-> [f EXCEPT !.latches = @ \cup {first}, !.dir = first + 1],
                      col |-> c(first), row |-> r(first), bcid |-> b]

---------------------------------------------------------------------------
(* The two commit steps of clusterize, lines 230-233.                      *)

(* addClusterToResults without line 512: the size histogram is left alone.  *)
addClusterToResults_noSizeHist(s, tStored) ==
    LET n == Len(s.g_log)
        size == s.actualClusterSize
        tot == s.actualClusterTot
        s2 == [s EXCEPT !.clusterTots[TotIndex(tot, size)] = IF tStored THEN @ + 1 ELSE @,
                        !.g_log[n].totHist = TRUE]
        s3 == [s2 EXCEPT !.clusterTots[tot] = @ + 1]
    IN  IF s.abortCluster THEN s
        ELSE IF ~(tot < MAXTOTBINS /\ size < MAXCLUSTERHITSBINS) THEN [s EXCEPT !.exc = TRUE]
        ELSE s3

(* Line 516 increments _clusterTots at an index that the array allocated   *)
(* at line 624 may not have: the array is one element short of the index   *)
(* of the last tot bin of the last size.  The increment of that element is *)
(* a write past the end of the array, whose value is then kept or lost.    *)
TotStoreOutcomes(s) ==
    IF TotIndex(s.actualClusterTot, s.actualClusterSize) >= clusterTotsAllocated
    THEN BOOLEAN ELSE {TRUE}

addClusterToResults(s, tStored) ==
    LET n == Len(s.g_log)
        size == s.actualClusterSize
        tot == s.actualClusterTot
        s1 == [s EXCEPT !.clusterHits[size] = @ + 1,
                        !.g_log[n].sizeHist = TRUE]
        s2 == [s1 EXCEPT !.clusterTots[TotIndex(tot, size)] = IF tStored THEN @ + 1 ELSE @,
                         !.g_log[n].totHist = TRUE,
                         !.g_oob = IF TotIndex(tot, size) >= clusterTotsAllocated
                                   THEN @ \cup {"clusterTots"} ELSE @,
                         !.g_totIndexMax = TotAddressed(s1, TotIndex(tot, size))]
        s3 == [s2 EXCEPT !.clusterTots[tot] = @ + 1]
    IN  IF s.abortCluster THEN s
        ELSE IF ~(size < MAXCLUSTERHITSBINS) THEN [s EXCEPT !.exc = TRUE]
        ELSE IF ~(tot < MAXTOTBINS /\ size < MAXCLUSTERHITSBINS) THEN [s1 EXCEPT !.exc = TRUE]
        ELSE s3

(* The index lines 736-737 read from _hitIndexMap at the seed cell.  A     *)
(* cell of _hitIndexMap that was never written holds an indeterminate      *)
(* unsigned value: any index, inside the annotation array or beyond it.    *)
SeedHitIndexValues(s) ==
    LET v == s.hitIndexMap[CellIndex(s.actualClusterSeed_column, s.actualClusterSeed_row,
                                     s.actualClusterSeed_relbcid)]
    IN  IF v = Indeterminate THEN 0 .. MaxHits ELSE {v}

(* Line 737 left out: no hit is marked as the seed.                        *)
setSeed_none(s, tSeedIndex) == s

(* Line 737.                                                               *)
setSeed(s, tSeedIndex) == [s EXCEPT !.clusterHitInfo[tSeedIndex + 1].isSeed = 1]

addCluster(s, tSeedIndex) ==
    LET n == Len(s.g_log)
        k == s.Nclusters
        s1 == [s EXCEPT !.clusterInfo[k + 1] =
                            [eventNumber |-> s.actualEventNumber,
                             ID |-> s.actualClusterID,
                             size |-> s.actualClusterSize,
                             Tot |-> s.actualClusterTot,
                             seed_column |-> s.actualClusterSeed_column + 1,
                             seed_row |-> s.actualClusterSeed_row + 1,
                             eventStatus |-> s.actualEventStatus],
                        !.g_log[n].summary = TRUE,
                        !.g_log[n].slot = k]
        s2 == IF s.createClusterInfoArray THEN s1 ELSE s
        s3 == [s2 EXCEPT !.Nclusters = @ + 1, !.g_log[n].counted = TRUE]
        s4 == [setSeed(s3, tSeedIndex) EXCEPT !.g_log[n].seeded = TRUE]
    IN  IF s.createClusterInfoArray /\ ~(k < s.clusterInfoSize)
        THEN [s EXCEPT !.exc = TRUE]
        ELSE IF ~s3.createClusterHitInfoArray THEN s3
        ELSE IF tSeedIndex < s3.clusterHitInfoSize THEN s4
        ELSE [s3 EXCEPT !.exc = TRUE]

(* addHitClusterInfo has an empty body.                                    *)
addHitClusterInfo(s, pHitIndex) == s

---------------------------------------------------------------------------
(* The scan of clusterize, lines 223-248, from a loop position to the next *)
(* cell that holds a hit or to the return.                                 *)

RECURSIVE clusterizeScan(_, _)
clusterizeScan(s, p) ==
    CASE p.lvl = "bcid" ->
            IF p.iBCID <= s.bCIDlastHit
            THEN clusterizeScan(s, [p EXCEPT !.lvl = "col", !.iCol = s.minColHitPos])
            ELSE [kind |-> IF s.nHits = 0 THEN "true" ELSE "false", pos |-> p]
      [] p.lvl = "col" ->
            IF p.iCol <= s.maxColHitPos
            THEN clusterizeScan(s, [p EXCEPT !.lvl = "row", !.iRow = s.minRowHitPos])
            ELSE clusterizeScan(s, [p EXCEPT !.lvl = "bcid", !.iBCID = @ + 1])
      [] p.lvl = "row" ->
            IF p.iRow <= s.maxRowHitPos
            THEN clusterizeScan(s, [p EXCEPT !.lvl = "cell"])
            ELSE clusterizeScan(s, [p EXCEPT !.lvl = "col", !.iCol = @ + 1])
      [] p.lvl = "cell" ->
            IF hitExists(s, U16(p.iCol), U16(p.iRow), U16(p.iBCID))
            THEN [kind |-> "hit", pos |-> p]
            ELSE clusterizeScan(s, [p EXCEPT !.lvl = "after"])
      [] p.lvl = "after" ->
            IF s.nHits = 0
            THEN [kind |-> "true", pos |-> p]
            ELSE clusterizeScan(s, [p EXCEPT !.lvl = "row", !.iRow = @ + 1])

ClusterizeStart(s) ==
    [lvl |-> "bcid", iBCID |-> s.bCIDfirstHit, iCol |-> 0, iRow |-> 0]

NewLogEntry(s) ==
    [event |-> s.actualEventNumber, id |-> s.actualClusterID, hits |-> {},
     taken |-> << >>, bcid |-> s.actualRelativeClusterBCID,
     done |-> FALSE, abort |-> FALSE, size |-> 0, tot |-> 0,
     sizeHist |-> FALSE, totHist |-> FALSE, summary |-> FALSE, slot |-> -1,
     counted |-> FALSE, seeded |-> FALSE, depth |-> 0]


---------------------------------------------------------------------------
(* The setters.  createClusterHitInfoArray and createClusterInfoArray are  *)
(* the setters of the two output switches; their bodies are not part of    *)
(* Clusterizer.cpp.                                                        *)

setXclusterDistance(s, pDx) ==
    IF pDx > 1 /\ pDx < RAW_DATA_MAX_COLUMN - 1 THEN [s EXCEPT !.dx = pDx] ELSE s

setYclusterDistance(s, pDy) ==
    IF pDy > 1 /\ pDy < RAW_DATA_MAX_ROW - 1 THEN [s EXCEPT !.dy = pDy] ELSE s

setBCIDclusterDistance(s, pDbCID) ==
    IF pDbCID < MAXBCID - 1 THEN [s EXCEPT !.DbCID = pDbCID] ELSE s

setMinClusterHits(s, pMinNclusterHits) == [s EXCEPT !.minClusterHits = pMinNclusterHits]

setMaxClusterHits(s, pMaxNclusterHits) == [s EXCEPT !.maxClusterHits = pMaxNclusterHits]

setMaxClusterHitTot(s, pMaxClusterHitTot) == [s EXCEPT !.maxClusterHitTot = pMaxClusterHitTot]

setMaxHitTot(s, pMaxHitTot) == [s EXCEPT !.maxHitTot = pMaxHitTot]

createClusterHitInfoArray(s, toggle) == [s EXCEPT !.createClusterHitInfoArray = toggle]

createClusterInfoArray(s, toggle) == [s EXCEPT !.createClusterInfoArray = toggle]

setClusterHitInfoArray(s, rClusterHitInfo, rSize) ==
    [s EXCEPT !.clusterHitInfo = rClusterHitInfo, !.clusterHitInfoSize = rSize]

setClusterInfoArray(s, rClusterInfo, rSize) ==
    [s EXCEPT !.clusterInfo = rClusterInfo, !.clusterInfoSize = rSize, !.Nclusters = 0]

getNclusters(s) == s.Nclusters

---------------------------------------------------------------------------
(* The pieces of addHits and clusterize between which the state machine    *)
(* below stops.                                                            *)

(* addHits, lines 188-192.  The caller has handed over the arrays that the *)
(* enabled outputs are written to.                                         *)
BuffersGiven(s) ==
    /\ s.createClusterInfoArray => s.clusterInfoSize # Indeterminate
    /\ s.createClusterHitInfoArray => s.clusterHitInfoSize # Indeterminate

addHitsEntry(s) ==
    [s EXCEPT !.hitInfo = << >>,
              !.Nclusters = 0,
              !.exc = FALSE,
              !.g_log = << >>,
              !.g_inserted = {},
              !.g_oob = {},
              !.g_entryEvent = s.actualEventNumber,
              !.g_entryID = s.actualClusterID,
              !.g_origin = [c \in Cells |-> [@[c] EXCEPT !.fresh = FALSE]]]

(* The test of line 195 answering that the event number never changes.    *)
EventChanged_never(s, h) == FALSE

(* Line 195.                                                               *)
EventChanged(s, h) == s.actualEventNumber # h.eventNumber

(* Lines 200-201.                                                          *)
InsertHit(s, pHitIndex) ==
    addHit([s EXCEPT !.actualEventNumber = s.hitInfo[pHitIndex + 1].eventNumber], pHitIndex)

(* Lines 227-229 up to the deletion of the hit at the scan position p.      *)
clusterizeSeed(s, p) ==
    LET s0 == clearActualClusterData(s)
        sb == [s0 EXCEPT !.actualRelativeClusterBCID = p.iBCID]
        s1 == [sb EXCEPT !.g_log = Append(@, NewLogEntry(sb))]
    IN  Nested(searchNextHitsEntry(s1, U16(p.iCol), U16(p.iRow), U16(p.iBCID)), 1)

(* Lines 230-234.                                                          *)
clusterizeCommit(s, tSeedIndex, tStored) ==
    LET n == Len(s.g_log)
        s0 == [s EXCEPT !.g_log[n].done = TRUE,
                        !.g_log[n].abort = s.abortCluster,
                        !.g_log[n].size = s.actualClusterSize,
                        !.g_log[n].tot = s.actualClusterTot,
                        !.g_passed = IF /\ ~s.abortCluster
                                        /\ s.actualClusterSize >= s.minClusterHits
                                     THEN @ + 1 ELSE @,
                        !.g_oversize = IF /\ ~s.abortCluster
                                          /\ s.actualClusterSize >= s.minClusterHits
                                          /\ s.actualClusterSize >= MAXCLUSTERHITSBINS
                                       THEN @ + 1 ELSE @]
        s1 == addClusterToResults(s0, tStored)
        s2 == IF s1.exc THEN s1 ELSE addCluster(s1, tSeedIndex)
        s3 == IF s2.exc THEN s2 ELSE [s2 EXCEPT !.actualClusterID = @ + 1]
    IN  IF s0.actualClusterSize >= s0.minClusterHits THEN s3 ELSE s0

---------------------------------------------------------------------------
(* addHits run to completion, for the comparison of two engines that are   *)
(* given the same hits in different batches.  Where the code reads memory  *)
(* it never wrote, the read gives index 0 and the engine is marked in      *)
(* g_oob.  The increments of line 516 that fall outside the array are kept *)
(* if tStored and lost otherwise, all those of one run alike.              *)

(* searchNextHits from the frames on the stack to the return of the first  *)
(* frame, or to the throw of line 372: the top frame resumes its loops at  *)
(* r, the next hit it finds, and the frame of that hit is entered.         *)
RECURSIVE searchNextHitsRun(_, _)

searchNextHitsEntered(s1, st, r) ==
    IF s1.exc THEN s1
    ELSE searchNextHitsRun(s1, IF s1.nHits = 0 THEN st
                               ELSE Append(st, NewFrame(s1, r.col, r.row, r.bcid)))

(* The frame f as the call keeps it after the test of lines 414-445 has    *)
(* set one of its flags tHitUp ... tHitUpLeft.  In an engine built without *)
(* the flags (tHitLatches = FALSE, never the case for the program itself)  *)
(* no flag is kept.                                                        *)
KeptFrame(s, f) == IF s.tHitLatches THEN f ELSE [f EXCEPT !.latches = {}]

searchNextHitsResumed(s, stack, r) ==
    IF ~r.found THEN searchNextHitsRun(s, SubSeq(stack, 1, Len(stack) - 1))
    ELSE searchNextHitsEntered(Nested(searchNextHitsEntry(s, r.col, r.row, r.bcid),
                                      Len(stack) + 1),
                               [stack EXCEPT ![Len(stack)] = KeptFrame(s, r.frame)], r)

searchNextHitsRun(s, stack) ==
    IF stack = << >> THEN s
    ELSE searchNextHitsResumed(s, stack, searchNextHitsScan(s, stack[Len(stack)]))

(* The index read at line 736 when the cell was never written.             *)
SeedHitIndexRead(s) ==
    IF Cardinality(SeedHitIndexValues(s)) > 1 THEN 0
    ELSE CHOOSE v \in SeedHitIndexValues(s) : TRUE

MarkUnwritten(s, unwritten) ==
    IF unwritten THEN [s EXCEPT !.g_oob = @ \cup {"hitIndexMap"}] ELSE s

(* clusterize from the scan position p to its return or to a throw: the    *)
(* scan stops at r, the flood-fill of the hit found there runs, and the    *)
(* cluster is committed.                                                   *)
RECURSIVE clusterizeRun(_, _, _)

clusterizeCommitted(s4, q, tStored) ==
    IF s4.exc \/ s4.nHits = 0 THEN s4
    ELSE clusterizeRun(s4, [q EXCEPT !.lvl = "after"], tStored)

clusterizeSearched(s2, q, tStored) ==
    IF s2.exc THEN s2
    ELSE clusterizeCommitted(
             MarkUnwritten(clusterizeCommit(s2, SeedHitIndexRead(s2),
                                           tStored \/ TotStoreOutcomes(s2) = {TRUE}),
                           s2.createClusterHitInfoArray
                               /\ Cardinality(SeedHitIndexValues(s2)) > 1),
             q, tStored)

clusterizeSeeded(s1, q, tStored) ==
    IF s1.exc THEN s1
    ELSE clusterizeSearched(
             searchNextHitsRun(s1, IF s1.nHits = 0 THEN << >>
                                   ELSE <<NewFrame(s1, U16(q.iCol), U16(q.iRow),
                                                   U16(q.iBCID))>>),
             q, tStored)

clusterizeScanned(s, r, tStored) ==
    IF r.kind # "hit" THEN s
    ELSE clusterizeSeeded(clusterizeSeed(s, r.pos), r.pos, tStored)

clusterizeRun(s, p, tStored) == clusterizeScanned(s, clusterizeScan(s, p), tStored)

clusterize(s, tStored) == clusterizeRun(s, ClusterizeStart(s), tStored)

(* Lines 197-201, clusterize having returned c or thrown.                  *)
addHitsClusterized(c, i) ==
    IF c.exc THEN c
    ELSE InsertHit(clearActualEventVariables(addHitClusterInfo(c, i)), i)

(* Lines 195-201 for the hit at index i, the last of s.hitInfo.            *)
addHitsRead(s, i, tStored) ==
    IF EventChanged(s, s.hitInfo[i + 1]) THEN addHitsClusterized(clusterize(s, tStored), i)
    ELSE InsertHit(s, i)

addHitsLoopBody(s, h, i, tStored) ==
    addHitsRead([s EXCEPT !.hitInfo = Append(@, h)], i, tStored)

(* Line 205, clusterize having returned c or thrown.                       *)
addHitsClosed(c) ==
    IF c.exc THEN c ELSE addHitClusterInfo(c, Len(c.hitInfo) - 1)

(* Lines 204-205.                                                          *)
addHitsEnd(s, tStored) == addHitsClosed(clusterize(s, tStored))

---------------------------------------------------------------------------
(* The state machine.                                                      *)

Init ==
    /\ m = Clusterizer
    /\ ctl = [pc |-> "idle", last |-> "none", calls |-> 0, fed |-> 0, stream |-> 0,
              i |-> 0, ret |-> "loop",
              scan |-> [lvl |-> "bcid", iBCID |-> 0, iCol |-> 0, iRow |-> 0],
              stack |-> << >>, threw |-> FALSE]

CanCall == ctl.pc = "idle" /\ ctl.calls < MaxCalls

Called(s) ==
    /\ m' = s
    /\ ctl' = [ctl EXCEPT !.calls = @ + 1, !.last = "set"]

SetXclusterDistance == CanCall /\ \E v \in DistanceValues : Called(setXclusterDistance(m, v))
SetYclusterDistance == CanCall /\ \E v \in DistanceValues : Called(setYclusterDistance(m, v))
SetBCIDclusterDistance == CanCall /\ \E v \in BCIDValues : Called(setBCIDclusterDistance(m, v))
SetMinClusterHits == CanCall /\ \E v \in MinHitsValues : Called(setMinClusterHits(m, v))
SetMaxClusterHits == CanCall /\ \E v \in MaxHitsValues : Called(setMaxClusterHits(m, v))
SetMaxClusterHitTot == CanCall /\ \E v \in TotCapValues : Called(setMaxClusterHitTot(m, v))
SetMaxHitTot == CanCall /\ \E v \in TotCapValues : Called(setMaxHitTot(m, v))
CreateClusterHitInfoArray == CanCall /\ \E b \in BOOLEAN : Called(createClusterHitInfoArray(m, b))
CreateClusterInfoArray == CanCall /\ \E b \in BOOLEAN : Called(createClusterInfoArray(m, b))

SetClusterHitInfoArray ==
    /\ CanCall
    /\ \E n \in HitBufferSizes :
          Called(setClusterHitInfoArray(m, [k \in 1 .. n |-> ZeroClusterHitInfo], n))

SetClusterInfoArray ==
    /\ CanCall
    /\ \E n \in BufferSizes :
          Called(setClusterInfoArray(m, [k \in 1 .. n |-> ZeroClusterInfo], n))

Reset ==
    /\ CanCall
    /\ m' = [reset(m) EXCEPT !.g_passed = 0, !.g_oversize = 0]
    /\ ctl' = [ctl EXCEPT !.calls = @ + 1, !.last = "reset", !.threw = FALSE]

(* An exception leaves addHits: the stack is unwound and the object stays  *)
(* as the throwing statement left it.                                      *)
Thrown == [ctl EXCEPT !.pc = "idle", !.last = "threw", !.stack = << >>, !.threw = TRUE]

(* addHits is called, lines 188-192.                                       *)
AddHits ==
    /\ CanCall
    /\ BuffersGiven(m)
    /\ m' = addHitsEntry(m)
    /\ ctl' = [ctl EXCEPT !.calls = @ + 1, !.last = "running", !.pc = "loop", !.i = 0]

NextEvents == {e \in {ctl.stream, ctl.stream + 1} : e >= 1}

NextHitInfo ==
    [eventNumber : NextEvents, column : HitColumns,
     row : HitRows, relativeBCID : 0 .. (MAXBCID - 1),
     tot : TotValues, eventStatus : StatusValues]

(* Lines 195-201 for the hit h that the array holds at index i.            *)
ReadHit(h) ==
    LET s == [m EXCEPT !.hitInfo = Append(@, h)]
        c == [ctl EXCEPT !.fed = @ + 1, !.stream = h.eventNumber]
    IN  IF EventChanged(s, h)
        THEN /\ m' = s
             /\ ctl' = [c EXCEPT !.pc = "clusterize", !.ret = "loop",
                                 !.scan = ClusterizeStart(s)]
        ELSE /\ m' = InsertHit(s, ctl.i)
             /\ ctl' = [c EXCEPT !.i = @ + 1]

(* Loop head of addHits with i < rNhits, lines 194-202: the next hit of    *)
(* the array is read.                                                      *)
AddHitsNext ==
    /\ ctl.pc = "loop"
    /\ ctl.fed < MaxHits
    /\ \E h \in NextHitInfo : ReadHit(h)

(* Loop head with i = rNhits, lines 203-204.                               *)
AddHitsTail ==
    /\ ctl.pc = "loop"
    /\ m' = m
    /\ ctl' = [ctl EXCEPT !.pc = "clusterize", !.ret = "tail", !.scan = ClusterizeStart(m)]

(* clusterize runs its loops to the next cell that holds a hit, or returns.*)
ClusterizeSeed ==
    /\ ctl.pc = "clusterize"
    /\ LET r == clusterizeScan(m, ctl.scan)
           p == r.pos
           s2 == clusterizeSeed(m, p)
       IN  /\ r.kind = "hit"
           /\ m' = s2
           /\ ctl' = IF s2.exc THEN Thrown
                     ELSE [ctl EXCEPT !.pc = "search", !.scan = p,
                              !.stack = IF s2.nHits = 0 THEN << >>
                                        ELSE <<NewFrame(s2, U16(p.iCol), U16(p.iRow), U16(p.iBCID))>>]

ClusterizeReturn ==
    /\ ctl.pc = "clusterize"
    /\ LET r == clusterizeScan(m, ctl.scan)
       IN  /\ r.kind # "hit"
           /\ m' = m
           /\ ctl' = [ctl EXCEPT !.pc = "closed", !.scan = r.pos]

(* The top frame of searchNextHits runs its loops to the next recursive    *)
(* call, which is entered.                                                 *)
SearchCall ==
    /\ ctl.pc = "search"
    /\ ctl.stack # << >>
    /\ LET n == Len(ctl.stack)
           r == searchNextHitsScan(m, ctl.stack[n])
           s1 == Nested(searchNextHitsEntry(m, r.col, r.row, r.bcid), n + 1)
           st == [ctl.stack EXCEPT ![n] = r.frame]
       IN  /\ r.found
           /\ m' = s1
           /\ ctl' = IF s1.exc THEN Thrown
                     ELSE [ctl EXCEPT !.stack = IF s1.nHits = 0 THEN st
                                                ELSE Append(st, NewFrame(s1, r.col, r.row, r.bcid))]

(* The top frame finds no further hit and returns.                         *)
SearchReturn ==
    /\ ctl.pc = "search"
    /\ ctl.stack # << >>
    /\ LET n == Len(ctl.stack)
           r == searchNextHitsScan(m, ctl.stack[n])
       IN  /\ ~r.found
           /\ m' = m
           /\ ctl' = [ctl EXCEPT !.stack = SubSeq(@, 1, n - 1)]

(* Back in clusterize after the flood-fill, lines 230-239.                 *)
ClusterizeCommit ==
    /\ ctl.pc = "search"
    /\ ctl.stack = << >>
    /\ \E tSeedIndex \in SeedHitIndexValues(m), tStored \in TotStoreOutcomes(m) :
          LET s4 == clusterizeCommit(m, tSeedIndex, tStored)
          IN  /\ m' = s4
              /\ ctl' = IF s4.exc THEN Thrown
                        ELSE IF s4.nHits = 0 THEN [ctl EXCEPT !.pc = "closed"]
                        ELSE [ctl EXCEPT !.pc = "clusterize", !.scan.lvl = "after"]

(* clusterize has returned inside the loop, lines 197-201.                 *)
AddHitsInsert ==
    /\ ctl.pc = "closed"
    /\ ctl.ret = "loop"
    /\ m' = InsertHit(clearActualEventVariables(addHitClusterInfo(m, ctl.i)), ctl.i)
    /\ ctl' = [ctl EXCEPT !.pc = "loop", !.i = @ + 1]

(* clusterize has returned after the loop, line 205; addHits returns.      *)
AddHitsReturn ==
    /\ ctl.pc = "closed"
    /\ ctl.ret = "tail"
    /\ m' = addHitClusterInfo(m, ctl.i - 1)
    /\ ctl' = [ctl EXCEPT !.pc = "idle", !.last = "returned"]

Next ==
    \/ SetXclusterDistance \/ SetYclusterDistance \/ SetBCIDclusterDistance
    \/ SetMinClusterHits \/ SetMaxClusterHits \/ SetMaxClusterHitTot \/ SetMaxHitTot
    \/ CreateClusterHitInfoArray \/ CreateClusterInfoArray
    \/ SetClusterHitInfoArray \/ SetClusterInfoArray
    \/ Reset
    \/ AddHits \/ AddHitsNext \/ AddHitsTail
    \/ ClusterizeSeed \/ ClusterizeReturn
    \/ SearchCall \/ SearchReturn \/ ClusterizeCommit
    \/ AddHitsInsert \/ AddHitsReturn

Spec == Init /\ [][Next]_vars

---------------------------------------------------------------------------
(* The flood-fill on hits spread over the pixel matrix: one event of up to *)
(* FillHits hits at any of the columns and rows of FillColumns and         *)
(* FillRows, clustered with the standard distances, with or without a     *)
(* lower or an upper limit on the cluster size.                            *)

FillHitInfo ==
    [eventNumber : {1}, column : FillColumns, row : FillRows,
     relativeBCID : 0 .. (MAXBCID - 1), tot : {1}, eventStatus : StatusValues]

FillHitsNext ==
    /\ ctl.pc = "loop"
    /\ ctl.fed < FillHits
    /\ \E h \in FillHitInfo : ReadHit(h)

FillCreateClusterInfoArray == ctl.calls < FillCalls /\ CreateClusterInfoArray
FillSetMinClusterHits == ctl.calls < FillCalls /\ SetMinClusterHits
FillSetMaxClusterHits == ctl.calls < FillCalls /\ SetMaxClusterHits
FillAddHits == ctl.calls < FillCalls /\ AddHits

FillNext ==
    \/ FillCreateClusterInfoArray \/ FillSetMinClusterHits \/ FillSetMaxClusterHits
    \/ FillAddHits
    \/ FillHitsNext \/ AddHitsTail
    \/ ClusterizeSeed \/ ClusterizeReturn
    \/ SearchCall \/ SearchReturn \/ ClusterizeCommit
    \/ AddHitsInsert \/ AddHitsReturn

SpecFill == Init /\ [][FillNext]_vars


---------------------------------------------------------------------------
(* Two engines with the same settings are given the same batches of hits:  *)
(* m.w gets every batch in one addHits call, m.p gets it in parts, one     *)
(* addHits call per part, the batch being cut where the event number       *)
(* changes.  The caller of m.p collects what each part wrote to the        *)
(* summary array, to the cluster count and to the annotation array in      *)
(* m.clusterInfo, m.Nclusters and m.clusterHitInfo.  m.undefined records   *)
(* that a call read or wrote outside what the code was given.  The engines *)
(* are set up by the setters before the first batch.                       *)

PartsSetups ==
    [info : BOOLEAN, infoSize : PartsInfoSizes, hitInfo : BOOLEAN, hitInfoSize : PartsHitInfoSizes]

SetUp(c) ==
    LET s1 == createClusterInfoArray(Clusterizer, c.info)
        s2 == IF c.info
              THEN setClusterInfoArray(s1, [k \in 1 .. c.infoSize |-> ZeroClusterInfo], c.infoSize)
              ELSE s1
        s3 == createClusterHitInfoArray(s2, c.hitInfo)
    IN  IF c.hitInfo
        THEN setClusterHitInfoArray(s3, [k \in 1 .. c.hitInfoSize |-> ZeroClusterHitInfo],
                                    c.hitInfoSize)
        ELSE s3

PartsInit ==
    /\ \E c \in PartsSetups :
          m = [w |-> SetUp(c), p |-> SetUp(c),
               clusterInfo |-> << >>, Nclusters |-> 0, clusterHitInfo |-> << >>,
               undefined |-> FALSE]
    /\ ctl = [pc |-> "idle", last |-> "none", fed |-> 0, stream |-> 0, cut |-> FALSE, cuts |-> 0]

(* What a returned call has put into the caller's arrays.                  *)
SummariesOf(s) ==
    IF s.createClusterInfoArray THEN SubSeq(s.clusterInfo, 1, s.Nclusters) ELSE << >>
AnnotationsOf(s) ==
    IF s.createClusterHitInfoArray THEN SubSeq(s.clusterHitInfo, 1, Len(s.hitInfo)) ELSE << >>

(* A call that has thrown is over: its engine is given nothing more.       *)
Unless(s, next) == IF s.exc THEN s ELSE next

Undefined(s) == s.g_oob # {}

(* The two engines after a step that left them as w and p.                 *)
Engines(w, p) ==
    [m EXCEPT !.w = w, !.p = p, !.undefined = @ \/ Undefined(w) \/ Undefined(p)]

(* The part of m.p has returned or thrown as e; after a return the caller  *)
(* keeps its output and calls addHits for the next part.                   *)
NextPart(e) ==
    IF e.exc THEN [m EXCEPT !.p = e, !.undefined = @ \/ Undefined(e)]
    ELSE [m EXCEPT !.p = addHitsEntry(e),
                   !.clusterInfo = @ \o SummariesOf(e),
                   !.Nclusters = @ + getNclusters(e),
                   !.clusterHitInfo = @ \o AnnotationsOf(e),
                   !.undefined = @ \/ Undefined(e)]

BatchEnds(s) == [ctl EXCEPT !.pc = IF s.w.exc \/ s.p.exc THEN "failed" ELSE "idle",
                            !.last = IF s.w.exc \/ s.p.exc THEN "threw" ELSE "returned"]

PartsAddHits ==
    /\ ctl.pc = "idle"
    /\ ctl.fed < PartsHits
    /\ BuffersGiven(m.w)
    /\ m' = [m EXCEPT !.w = addHitsEntry(@), !.p = addHitsEntry(@),
                      !.clusterInfo = << >>, !.Nclusters = 0, !.clusterHitInfo = << >>]
    /\ ctl' = [ctl EXCEPT !.pc = "loop", !.last = "running", !.cut = FALSE, !.cuts = 0]

(* Both engines read the next hit of the batch.  The first hit of a part   *)
(* has another event number than the last hit of the part before.          *)
PartsReadHit ==
    /\ ctl.pc = "loop"
    /\ ctl.fed < PartsHits
    /\ \E h \in NextHitInfo :
          /\ ctl.cut => h.eventNumber # ctl.stream
          /\ \E w \in {Unless(m.w, addHitsLoopBody(m.w, h, Len(m.w.hitInfo), tStored)) :
                           tStored \in BOOLEAN},
                p \in {Unless(m.p, addHitsLoopBody(m.p, h, Len(m.p.hitInfo), tStored)) :
                           tStored \in BOOLEAN} :
                m' = Engines(w, p)
          /\ ctl' = [ctl EXCEPT !.fed = @ + 1, !.stream = h.eventNumber, !.cut = FALSE]

(* The batch of m.p is cut: the call of the part returns and addHits is    *)
(* called for the next part.                                               *)
PartsCut ==
    /\ ctl.pc = "loop"
    /\ ~ctl.cut
    /\ ctl.fed < PartsHits
    /\ Len(m.p.hitInfo) > 0
    /\ ~m.p.exc
    /\ \E e \in {addHitsEnd(m.p, tStored) : tStored \in BOOLEAN} : m' = NextPart(e)
    /\ ctl' = [ctl EXCEPT !.cut = TRUE, !.cuts = @ + 1]

(* The batch is over: the call of m.w and the call of the last part of m.p *)
(* return or have thrown.                                                  *)
PartsReturn ==
    /\ ctl.pc = "loop"
    /\ ~ctl.cut
    /\ \E w \in {Unless(m.w, addHitsEnd(m.w, tStored)) : tStored \in BOOLEAN},
          p \in {Unless(m.p, addHitsEnd(m.p, tStored)) : tStored \in BOOLEAN} :
          m' = Engines(w, p)
    /\ ctl' = BatchEnds(m')

PartsNext == PartsAddHits \/ PartsReadHit \/ PartsCut \/ PartsReturn

SpecParts == PartsInit /\ [][PartsNext]_vars

---------------------------------------------------------------------------
(* Two engines with the same settings are given the same batches of hits,  *)
(* each batch in one addHits call: m.w is the program, m.p is the program   *)
(* built without the flags tHitUp ... tHitUpLeft of lines 399-406.         *)

LatchSetups ==
    [info : {FALSE}, infoSize : {PartsHits}, hitInfo : BOOLEAN, hitInfoSize : {PartsHits}]

LatchMaxClusterHits == {2, 9}

LatchInit ==
    /\ \E c \in LatchSetups, n \in LatchMaxClusterHits :
          m = [w |-> setMaxClusterHits(SetUp(c), n),
               p |-> [setMaxClusterHits(SetUp(c), n) EXCEPT !.tHitLatches = FALSE],
               clusterInfo |-> << >>, Nclusters |-> 0, clusterHitInfo |-> << >>,
               undefined |-> FALSE]
    /\ ctl = [pc |-> "idle", last |-> "none", fed |-> 0, stream |-> 0, cut |-> FALSE, cuts |-> 0]

LatchNext == PartsAddHits \/ PartsReadHit \/ PartsReturn

SpecLatch == LatchInit /\ [][LatchNext]_vars

---------------------------------------------------------------------------
(* Vocabulary of the properties.                                           *)

(* addHits has just returned to its caller without an exception.           *)
Returned == ctl.pc = "idle" /\ ctl.last = "returned"

(* addHits is running, or is the last call that was made.                  *)
InOrAfterAddHits == ctl.last \in {"running", "returned", "threw"}

GridEmpty == \A c \in Cells : m.hitMap[c] = -1

Log == {m.g_log[k] : k \in 1 .. Len(m.g_log)}
LogIndex == 1 .. Len(m.g_log)

(* The clusters whose flood-fill is over and that passed the size filter   *)
(* and the abort filter of the specification.                              *)
Committed(e) == e.done /\ ~e.abort /\ e.size >= m.minClusterHits

(* The clusters that were emitted: written to the summary array or counted *)
(* by _Nclusters.                                                          *)
Emitted(e) == e.summary \/ e.counted

(* The hits of the running batch among the hits a cluster consumed.        *)
BatchHits(e) == {h \in e.hits : h.fresh}

AnnotationOn == m.createClusterHitInfoArray /\ Len(m.hitInfo) <= m.clusterHitInfoSize

Annotation(i) == m.clusterHitInfo[i + 1]

PassThrough(a) ==
    [eventNumber |-> a.eventNumber, column |-> a.column, row |-> a.row,
     relativeBCID |-> a.relativeBCID, tot |-> a.tot, eventStatus |-> a.eventStatus]

---------------------------------------------------------------------------
(* C1: when addHits returns, every cell of the hit map is empty and        *)
(* _nHits is 0, for hits of an event given in any order of relative BCID,  *)
(* column and row.                                                         *)
C1_GridEmptyOnReturn == Returned => (GridEmpty /\ m.nHits = 0)

(* C2: every cluster emitted by addHits has a size between _minClusterHits *)
(* and _maxClusterHits and only hits with tot <= _maxClusterHitTot; a      *)
(* cluster aborted by a cap is not emitted.                                *)
C2_EmittedWithinCaps ==
    Returned =>
        \A e \in Log :
            Emitted(e) =>
                /\ e.size >= m.minClusterHits
                /\ e.size <= m.maxClusterHits
                /\ \A h \in e.hits : h.tot <= m.maxClusterHitTot
                /\ ~e.abort

(* C3: a cluster is added to all the outputs that are switched on (size    *)
(* histogram, tot histogram, summary array, seed annotation) or to none.   *)
C3_AllOutputs(e) ==
    /\ e.sizeHist /\ e.totHist /\ e.counted
    /\ m.createClusterInfoArray => e.summary
    /\ m.createClusterHitInfoArray => e.seeded
C3_NoOutput(e) ==
    ~e.sizeHist /\ ~e.totHist /\ ~e.counted /\ ~e.summary /\ ~e.seeded
C3_NoPartialCommit ==
    InOrAfterAddHits => \A e \in Log : C3_AllOutputs(e) \/ C3_NoOutput(e)

(* C4: when addHits returns, every hit of the batch that was booked into   *)
(* the hit map was consumed by exactly one cluster, formed for its own     *)
(* event, and every hit with tot > _maxHitTot was neither booked nor       *)
(* consumed.                                                               *)
C4_ClustersOf(i) == {k \in LogIndex : \E h \in BatchHits(m.g_log[k]) : h.idx = i}
C4_EveryHitInOneCluster ==
    Returned =>
        \A i \in 0 .. (Len(m.hitInfo) - 1) :
            LET h == m.hitInfo[i + 1]
            IN  /\ i \in m.g_inserted =>
                      /\ Cardinality(C4_ClustersOf(i)) = 1
                      /\ \A k \in C4_ClustersOf(i) : m.g_log[k].event = h.eventNumber
                /\ h.tot > m.maxHitTot =>
                      /\ i \notin m.g_inserted
                      /\ C4_ClustersOf(i) = {}

(* C5: every hit a cluster consumed carries the event number under which   *)
(* the cluster was formed, and that is the event number written to the     *)
(* cluster's summary.                                                      *)
C5_NoClusterSpansEvents ==
    InOrAfterAddHits =>
        \A e \in Log :
            /\ \A h \in e.hits : h.event = e.event
            /\ e.summary => m.clusterInfo[e.slot + 1].eventNumber = e.event
C5_Witness ==
    /\ Returned
    /\ \E e1 \in Log, e2 \in Log :
          /\ e1.event # e2.event
          /\ e1.summary /\ e2.summary
          /\ e1.hits # {} /\ e2.hits # {}

(* C6: in emission order the cluster ids of one event increase strictly,   *)
(* and the first cluster emitted for a new event number has id 0, also     *)
(* when the new event starts with a new addHits call.                      *)
C6_EmittedIndex == {k \in LogIndex : Emitted(m.g_log[k])}
C6_PreviousEmitted(k) == {j \in C6_EmittedIndex : j < k /\ \A i \in C6_EmittedIndex : i < k => i <= j}
C6_IdOf(k) ==
    IF m.g_log[k].summary THEN m.clusterInfo[m.g_log[k].slot + 1].ID ELSE m.g_log[k].id
C6_ClusterIdsPerEvent ==
    InOrAfterAddHits =>
        \A k \in C6_EmittedIndex :
            /\ C6_IdOf(k) = m.g_log[k].id
            /\ \A j \in C6_PreviousEmitted(k) :
                  IF m.g_log[j].event = m.g_log[k].event
                  THEN C6_IdOf(k) > C6_IdOf(j)
                  ELSE C6_IdOf(k) = 0
            /\ C6_PreviousEmitted(k) = {} =>
                  IF m.g_log[k].event = m.g_entryEvent
                  THEN C6_IdOf(k) >= m.g_entryID
                  ELSE C6_IdOf(k) = 0
C6_Witness ==
    /\ Returned
    /\ \E j \in C6_EmittedIndex, k \in C6_EmittedIndex :
          /\ j < k
          /\ m.g_log[j].event = m.g_log[k].event
          /\ m.g_log[j].summary /\ m.g_log[k].summary
          /\ C6_IdOf(j) = 0 /\ C6_IdOf(k) = 1

(* C7: with the per-hit annotation on, when addHits returns the clusterID  *)
(* of every hit's annotation is the id of the cluster that consumed the    *)
(* hit, and every committed cluster has exactly one hit with isSeed = 1,   *)
(* its other hits having isSeed = 0.  The clusters of the call are made of *)
(* hits of its batch: no hit that an exception left in the hit map during  *)
(* an earlier call was consumed.                                           *)
C7_OnlyBatchHits == \A e \in Log : e.hits = BatchHits(e)
C7_Seeds(e) == {h \in BatchHits(e) : Annotation(h.idx).isSeed = 1}
C7_AnnotationMatchesCluster ==
    (Returned /\ AnnotationOn /\ C7_OnlyBatchHits) =>
        \A e \in Log :
            /\ \A h \in BatchHits(e) : Annotation(h.idx).clusterID = e.id
            /\ Committed(e) =>
                  /\ Cardinality(C7_Seeds(e)) = 1
                  /\ \A h \in BatchHits(e) \ C7_Seeds(e) : Annotation(h.idx).isSeed = 0
C7_Witness ==
    /\ Returned /\ AnnotationOn
    /\ \E e \in Log :
          /\ Committed(e)
          /\ Cardinality(BatchHits(e)) = 2
          /\ Cardinality(C7_Seeds(e)) = 1

(* C8: with the per-hit annotation on, when addHits returns the            *)
(* clusterSize and nCluster of every clustered hit's annotation hold the   *)
(* size of its cluster and the number of clusters of its event, not 666.   *)
C8_ClustersOfEvent(ev) == {k \in LogIndex : m.g_log[k].event = ev /\ Emitted(m.g_log[k])}
C8_SizesStamped ==
    (Returned /\ AnnotationOn) =>
        \A e \in Log : \A h \in BatchHits(e) :
            /\ Annotation(h.idx).clusterSize = e.size
            /\ Annotation(h.idx).nCluster = Cardinality(C8_ClustersOfEvent(e.event))

(* C9: with the per-hit annotation on, when addHits returns the            *)
(* pass-through fields of annotation i are the fields of input hit i, for  *)
(* every i of the batch.                                                   *)
C9_AnnotationCopiesHit ==
    (Returned /\ AnnotationOn) =>
        \A i \in 0 .. (Len(m.hitInfo) - 1) : PassThrough(Annotation(i)) = m.hitInfo[i + 1]

(* C10: right after reset() the cluster count, the event number, the event *)
(* status, the cluster id and all bins of both histograms are 0 and the    *)
(* hit map is empty with _nHits = 0.  (A cluster count that was never      *)
(* initialised is accepted as well as 0.)                                  *)
C10_ResetZeroesEverything ==
    ctl.last = "reset" =>
        /\ getNclusters(m) \in {0, Indeterminate}
        /\ m.actualEventNumber = 0 /\ m.actualEventStatus = 0 /\ m.actualClusterID = 0
        /\ \A k \in DOMAIN m.clusterHits : m.clusterHits[k] = 0
        /\ \A k \in DOMAIN m.clusterTots : m.clusterTots[k] = 0
        /\ GridEmpty /\ m.nHits = 0

---------------------------------------------------------------------------
(* The part of the engine that decides what the following calls produce:   *)
(* the settings, the hit map with its bookkeeping, the running cluster and *)
(* event variables, and the histograms.  The caller's buffers, the cluster *)
(* count and the index map are left out: a fresh engine has none.          *)
C11_Engine(s) ==
    [dx |-> s.dx, dy |-> s.dy, DbCID |-> s.DbCID,
     minClusterHits |-> s.minClusterHits, maxClusterHits |-> s.maxClusterHits,
     maxClusterHitTot |-> s.maxClusterHitTot, maxHitTot |-> s.maxHitTot,
     createClusterHitInfoArray |-> s.createClusterHitInfoArray,
     createClusterInfoArray |-> s.createClusterInfoArray,
     hitMap |-> s.hitMap, nHits |-> s.nHits,
     bCIDfirstHit |-> s.bCIDfirstHit, bCIDlastHit |-> s.bCIDlastHit,
     minColHitPos |-> s.minColHitPos, maxColHitPos |-> s.maxColHitPos,
     minRowHitPos |-> s.minRowHitPos, maxRowHitPos |-> s.maxRowHitPos,
     actualClusterTot |-> s.actualClusterTot, actualClusterSize |-> s.actualClusterSize,
     actualRelativeClusterBCID |-> s.actualRelativeClusterBCID,
     actualClusterMaxTot |-> s.actualClusterMaxTot,
     actualClusterSeed_column |-> s.actualClusterSeed_column,
     actualClusterSeed_row |-> s.actualClusterSeed_row,
     actualClusterSeed_relbcid |-> s.actualClusterSeed_relbcid,
     abortCluster |-> s.abortCluster,
     actualEventNumber |-> s.actualEventNumber, actualEventStatus |-> s.actualEventStatus,
     actualClusterID |-> s.actualClusterID,
     clusterHits |-> s.clusterHits, clusterTots |-> s.clusterTots]

(* C11: reset law.  Whatever setters and addHits calls came before, right  *)
(* after reset() the engine is the freshly constructed engine, so that any *)
(* sequence of operations run from there produces the outputs it produces  *)
(* on a new Clusterizer.                                                   *)
C11_ResetGivesFreshEngine ==
    ctl.last = "reset" => C11_Engine(m) = C11_Engine(Clusterizer)

---------------------------------------------------------------------------
RECURSIVE SumOver(_, _)
SumOver(f, S) ==
    IF S = {} THEN 0
    ELSE LET k == CHOOSE x \in S : TRUE IN f[k] + SumOver(f, S \ {k})

(* The sum over all bins of the cluster size histogram.                    *)
SizeHistSum == SumOver(m.clusterHits, DOMAIN m.clusterHits)

(* clusterize is back from a flood-fill whose cluster fails the size       *)
(* filter or was aborted by a cap.                                         *)
RejectedAtCommit ==
    /\ ctl.pc = "search" /\ ctl.stack = << >>
    /\ m.abortCluster \/ m.actualClusterSize < m.minClusterHits

(* C13: at any point since the last reset the bins of the size histogram   *)
(* sum up to the number of clusters formed since then that had at least    *)
(* _minClusterHits hits and were not aborted, and the commit of an aborted *)
(* or undersized cluster leaves every bin of both histograms as it was.    *)
C13_SizeHistCountsCommitted ==
    /\ [](SizeHistSum = m.g_passed)
    /\ [][RejectedAtCommit =>
             (m.clusterHits' = m.clusterHits /\ m.clusterTots' = m.clusterTots)]_vars

(* C13 with the clusters left out whose size has no bin in the size        *)
(* histogram (size >= MAXCLUSTERHITSBINS): for those line 514 throws and   *)
(* no bin is incremented.                                                  *)
C13_SizeHistCountsBinned ==
    /\ [](SizeHistSum = m.g_passed - m.g_oversize)
    /\ [][RejectedAtCommit =>
             (m.clusterHits' = m.clusterHits /\ m.clusterTots' = m.clusterTots)]_vars

(* One cluster is in the size histogram and another one was rejected.      *)
C13_Witness ==
    /\ Returned
    /\ SizeHistSum = 1 /\ m.g_passed = 1
    /\ \E e \in Log : e.done /\ ~Committed(e)

---------------------------------------------------------------------------
(* Input hit i of the running batch, and the batch indices of the hits a   *)
(* cluster consumed.                                                       *)
Hit(i) == m.hitInfo[i + 1]
Members(e) == {h.idx : h \in BatchHits(e)}

SamePixel(i, j) ==
    /\ Hit(i).eventNumber = Hit(j).eventNumber
    /\ Hit(i).column = Hit(j).column
    /\ Hit(i).row = Hit(j).row

(* C14: temporal adjacency.  When addHits returns, a hit of a cluster that *)
(* sits at the cluster's starting relative BCID b and a hit of the same    *)
(* event at the same column and row with relative BCID b' such that        *)
(* b <= b' <= b + _DbCID are in the same cluster.                          *)
C14_SamePixelLaterBCIDJoined ==
    Returned =>
        \A e \in Log : \A i \in Members(e) : \A j \in m.g_inserted :
            ( /\ Hit(i).relativeBCID = e.bcid
              /\ SamePixel(i, j)
              /\ Hit(i).relativeBCID <= Hit(j).relativeBCID
              /\ Hit(j).relativeBCID <= e.bcid + m.DbCID )
            => j \in Members(e)

---------------------------------------------------------------------------
(* The hits of the batch share one relative BCID, and no hit of an earlier *)
(* call is left in the hit map or was taken into a cluster.                *)
OneBCID ==
    /\ \A i, j \in 1 .. Len(m.hitInfo) : m.hitInfo[i].relativeBCID = m.hitInfo[j].relativeBCID
    /\ \A c \in Cells : m.g_origin[c] = NoHit \/ m.g_origin[c].fresh
    /\ \A e \in Log : e.hits = BatchHits(e)

Abs(x) == IF x < 0 THEN -x ELSE x

(* The relation 'column distance <= dx and row distance <= dy'.            *)
Adjacent(i, j) ==
    /\ Abs(Hit(i).column - Hit(j).column) <= m.dx
    /\ Abs(Hit(i).row - Hit(j).row) <= m.dy

(* The connected component of a set of booked hits under Adjacent.         *)
RECURSIVE Component(_)
Component(S) ==
    LET N == S \cup {j \in m.g_inserted : \E i \in S : Adjacent(i, j)}
    IN  IF N = S THEN S ELSE Component(N)

Components == {Component({i}) : i \in m.g_inserted}

---------------------------------------------------------------------------
(* A committed cluster that has no bin in the size histogram or in the tot *)
(* histogram.                                                              *)
Overflows(e) ==
    Committed(e) /\ (e.size >= MAXCLUSTERHITSBINS \/ e.tot >= MAXTOTBINS)

(* C16: with the summary array switched on, addHits does not return from a *)
(* batch that emits more clusters than _clusterInfoSize and never writes a *)
(* summary at an index >= _clusterInfoSize; and a committed cluster whose  *)
(* size is >= MAXCLUSTERHITSBINS or whose tot sum is >= MAXTOTBINS makes   *)
(* addHits throw without a bin of either histogram being incremented for   *)
(* it.                                                                     *)
C16_OverflowsThrowCleanly ==
    InOrAfterAddHits =>
        /\ m.createClusterInfoArray =>
              /\ \A e \in Log : e.summary => e.slot < m.clusterInfoSize
              /\ Returned => Cardinality({k \in LogIndex : Emitted(m.g_log[k])})
                                <= m.clusterInfoSize
        /\ \A e \in Log : Overflows(e) =>
              /\ ctl.last = "threw"
              /\ ~e.sizeHist /\ ~e.totHist

---------------------------------------------------------------------------
(* The summary written for a cluster.                                      *)
Summary(e) == m.clusterInfo[e.slot + 1]

(* The greatest tot among the hits a flood-fill took, and the position in  *)
(* the order of consumption of the last hit that has it.                   *)
MaxTot(e) == CHOOSE t \in {e.taken[k].tot : k \in DOMAIN e.taken} :
                 \A k \in DOMAIN e.taken : e.taken[k].tot <= t
LastMax(e) == CHOOSE k \in DOMAIN e.taken :
                 /\ e.taken[k].tot = MaxTot(e)
                 /\ \A j \in DOMAIN e.taken : e.taken[j].tot = MaxTot(e) => j <= k

(* C17: the seed column and row of every summary are the 1-based position  *)
(* of the member hit with the greatest tot of the cluster, and of the one  *)
(* the flood-fill consumed last if several members have the greatest tot.  *)
(* The clusters are those made of hits of the running batch.               *)
C17_SeedIsLastMaxTot ==
    InOrAfterAddHits =>
        \A e \in Log : (e.summary /\ e.hits = BatchHits(e)) =>
            /\ Summary(e).seed_column = e.taken[LastMax(e)].col + 1
            /\ Summary(e).seed_row = e.taken[LastMax(e)].row + 1

(* A summary of a cluster of two hits of equal tot.                        *)
C17_Witness ==
    /\ Returned
    /\ \E e \in Log :
          /\ e.summary /\ Len(e.taken) = 2
          /\ e.taken[1].tot = e.taken[2].tot

---------------------------------------------------------------------------
RECURSIVE TotSum(_)
TotSum(H) ==
    IF H = {} THEN 0
    ELSE LET h == CHOOSE x \in H : TRUE IN h.tot + TotSum(H \ {h})

(* C18: in every summary, size is the number of hits the cluster's         *)
(* flood-fill consumed and Tot is the sum of the tot values these hits     *)
(* were given with.                                                        *)
C18_SizeAndTotOfConsumedHits ==
    InOrAfterAddHits =>
        \A e \in Log : e.summary =>
            /\ Summary(e).size = Cardinality(e.hits)
            /\ Summary(e).size = Len(e.taken)
            /\ Summary(e).Tot = TotSum(e.hits)

(* The second summary of a batch is the one of a single hit of tot 2.      *)
C18_Witness ==
    /\ Returned
    /\ \E e \in Log :
          /\ e.summary /\ e.slot = 1
          /\ Summary(e).size = 1 /\ Summary(e).Tot = 2

---------------------------------------------------------------------------
(* Bin (s, t) of the tot histogram: clusters of size s with tot sum t; row *)
(* s = 0 is the aggregate over all sizes.                                  *)
TotHist(s, t) == m.clusterTots[TotIndex(t, s)]

TotBins == 0 .. (MAXTOTBINS - 1)
SizeBins == 1 .. (MAXCLUSTERHITSBINS - 1)

RECURSIVE TotHistColumn(_, _)
TotHistColumn(S, t) ==
    IF S = {} THEN 0
    ELSE LET s == CHOOSE x \in S : TRUE IN TotHist(s, t) + TotHistColumn(S \ {s}, t)

(* No addHits call since the construction or the last reset has thrown.    *)
NoFatalError == ctl.pc = "idle" /\ ~ctl.threw

(* C19: between calls, as long as no addHits call has thrown, row 0 of the *)
(* tot histogram is the sum of the rows of all sizes >= 1, bin by bin, and *)
(* its bins sum up to the sum over the size histogram.                     *)
C19_TotRowZeroAggregates ==
    NoFatalError =>
        /\ \A t \in TotBins : TotHist(0, t) = TotHistColumn(SizeBins, t)
        /\ SumOver(m.clusterTots, TotBins) = SizeHistSum

---------------------------------------------------------------------------
(* The cells of the hit map that hold a hit.                               *)
OccupiedCells == {c \in Cells : m.hitMap[c] # -1}

(* C20: in every state, between any two steps of addHits, of clusterize    *)
(* and of the flood-fill, _nHits is the number of cells of the hit map     *)
(* whose tot is not -1.                                                    *)
C20_LiveHitsCountsCells == m.nHits = Cardinality(OccupiedCells)

(* addHits has read a second hit for the cell that holds the first one.    *)
C20_Witness ==
    /\ ctl.pc = "loop" /\ Len(m.hitInfo) = 2
    /\ SamePixel(0, 1) /\ Hit(0).relativeBCID = Hit(1).relativeBCID
    /\ m.g_inserted = {0}
    /\ m.nHits = 1

---------------------------------------------------------------------------
(* The outputs of the batch of SpecParts that is over: of the one call of  *)
(* m.w, and of the calls of m.p, part after part.                          *)
WholeOutput ==
    [summaries |-> SummariesOf(m.w), clusters |-> getNclusters(m.w),
     annotations |-> AnnotationsOf(m.w),
     sizeHist |-> m.w.clusterHits, totHist |-> m.w.clusterTots]
PartsOutput ==
    [summaries |-> m.clusterInfo \o SummariesOf(m.p),
     clusters |-> m.Nclusters + getNclusters(m.p),
     annotations |-> m.clusterHitInfo \o AnnotationsOf(m.p),
     sizeHist |-> m.p.clusterHits, totHist |-> m.p.clusterTots]

BatchOver == ctl.pc \in {"idle", "failed"} /\ ctl.last \in {"returned", "threw"}

(* C12: event partition law.  A batch given in parts that are cut at event *)
(* boundaries ends as the batch given in one addHits call does: with the   *)
(* same summaries in the same order, the same annotations and the same     *)
(* histograms, or with the fatal error.                                    *)
C12_PartsGiveWholeOutput ==
    BatchOver =>
        /\ m.w.exc = m.p.exc
        /\ ~m.w.exc => WholeOutput = PartsOutput

(* C12 for the runs in which no increment of line 516 fell outside the     *)
(* array: the parts can still end without the fatal error of the whole     *)
(* batch, whose summaries do not fit the array that each part's do.        *)
C12_PartsGiveWholeOutputIfDefined ==
    (BatchOver /\ ~m.undefined) =>
        /\ m.w.exc = m.p.exc
        /\ ~m.w.exc => WholeOutput = PartsOutput

(* C12 for the runs in which no increment of line 516 fell outside the     *)
(* array and the one addHits call took the batch without a fatal error.    *)
C12_PartsGiveWholeOutputIfNoError ==
    (BatchOver /\ ~m.undefined /\ ~m.w.exc) =>
        /\ ~m.p.exc
        /\ WholeOutput = PartsOutput

(* A batch of three events was cut twice and gave three summaries and      *)
(* three annotations.                                                      *)
C12_Witness ==
    /\ BatchOver /\ ~m.undefined /\ ~m.w.exc
    /\ ctl.cuts = 2
    /\ Len(WholeOutput.summaries) = 3
    /\ Len(WholeOutput.annotations) = 3

(* A batch was cut after an event whose cluster fell into the last bin of  *)
(* the ToT histogram, and the two engines end with different histograms.   *)
C12_CutBatchDiffers ==
    /\ BatchOver /\ ~m.w.exc /\ ~m.p.exc
    /\ ctl.cuts >= 1
    /\ WholeOutput.summaries = PartsOutput.summaries
    /\ WholeOutput.annotations = PartsOutput.annotations
    /\ WholeOutput # PartsOutput


---------------------------------------------------------------------------
(* The cells of the hit map that hold a hit, by column, row and relative   *)
(* BCID.                                                                   *)
OccupiedAt(c, r, b) == m.hitMap[CellIndex(c, r, b)] # -1

ColumnsRowsBracketed ==
    \A c \in 0 .. (RAW_DATA_MAX_COLUMN - 1), r \in 0 .. (RAW_DATA_MAX_ROW - 1),
       b \in 0 .. (MAXBCID - 1) :
        OccupiedAt(c, r, b) =>
            /\ m.minColHitPos <= c /\ c <= m.maxColHitPos
            /\ m.minRowHitPos <= r /\ r <= m.maxRowHitPos

BCIDsBracketed ==
    \A c \in 0 .. (RAW_DATA_MAX_COLUMN - 1), r \in 0 .. (RAW_DATA_MAX_ROW - 1),
       b \in 0 .. (MAXBCID - 1) :
        OccupiedAt(c, r, b) => (m.bCIDfirstHit <= b /\ b <= m.bCIDlastHit)

(* C21: in every state the bounding box brackets every occupied cell of    *)
(* the hit map, in column, in row and in relative BCID, for hits of an     *)
(* event given in any order of relative BCID.                              *)
C21_BoxBracketsOccupiedCells == ColumnsRowsBracketed /\ BCIDsBracketed

(* C21 without _bCIDfirstHit: the columns, the rows and _bCIDlastHit       *)
(* bracket every occupied cell.                                            *)
C21_BoxBracketsButFirstBCID ==
    /\ ColumnsRowsBracketed
    /\ \A c \in 0 .. (RAW_DATA_MAX_COLUMN - 1), r \in 0 .. (RAW_DATA_MAX_ROW - 1),
          b \in 0 .. (MAXBCID - 1) :
           OccupiedAt(c, r, b) => b <= m.bCIDlastHit


---------------------------------------------------------------------------
(* The cluster whose flood-fill is running.                                *)
Growing == m.g_log[Len(m.g_log)]

InFloodFill == ctl.pc = "search" /\ m.g_log # << >>

(* C22: during addHits the number of calls of searchNextHits that are      *)
(* active at once never exceeds _maxClusterHits.                           *)
C22_DepthWithinMaxClusterHits == InFloodFill => Growing.depth <= m.maxClusterHits

(* C22 with the number of hits the flood-fill has taken for its cluster in *)
(* the place of _maxClusterHits: every active call has taken one hit, and  *)
(* the calls that are active now are among those counted.                  *)
C22_DepthWithinClusterSize ==
    InFloodFill =>
        /\ Growing.depth <= m.actualClusterSize
        /\ Len(ctl.stack) <= Growing.depth

(* The flood-fill of a cluster over the cap of one hit is three calls      *)
(* deep.                                                                   *)
C22_Witness ==
    /\ InFloodFill
    /\ Growing.depth = 3
    /\ m.actualClusterSize = 3
    /\ m.maxClusterHits = 1
    /\ m.abortCluster


---------------------------------------------------------------------------
(* The partition of the hits of the batches into clusters that the engine  *)
(* s has made: the sets of hits that its flood-fills took.                 *)
PartitionOf(s) == {s.g_log[k].hits : k \in 1 .. Len(s.g_log)}

(* All hits of the last batch have the same relative BCID.                 *)
BatchOfOneBCID ==
    \A i, j \in 1 .. Len(m.w.hitInfo) :
        m.w.hitInfo[i].relativeBCID = m.w.hitInfo[j].relativeBCID

(* C23: the flood-fill with the eight flags of a searchNextHits call and   *)
(* the flood-fill without them put the hits of every batch, hits at        *)
(* several relative BCIDs included, into the same clusters.                *)
C23_LatchesKeepPartition ==
    BatchOver => PartitionOf(m.w) = PartitionOf(m.p)

(* C23 for the batches whose hits all have the same relative BCID.         *)
C23_LatchesKeepPartitionOfOneBCID ==
    (BatchOver /\ BatchOfOneBCID) => PartitionOf(m.w) = PartitionOf(m.p)

(* A batch of three hits at two relative BCIDs was taken without a fatal   *)
(* error by both engines, which put its hits into different clusters.      *)
C23_PartitionsDiffer ==
    /\ BatchOver /\ ~m.w.exc /\ ~m.p.exc
    /\ Len(m.w.hitInfo) = 3
    /\ PartitionOf(m.w) # PartitionOf(m.p)


---------------------------------------------------------------------------
(* C24: _clusterTots has MAXCLUSTERHITSBINS x MAXTOTBINS elements, and     *)
(* every index of it that reset, clearResultHistograms and the commit of a *)
(* cluster have addressed lies inside the allocated array.                 *)
C24_TotIndicesAllocated ==
    /\ clusterTotsAllocated = MAXCLUSTERHITSBINS * MAXTOTBINS
    /\ m.g_totIndexMax < clusterTotsAllocated
    /\ "clusterTots" \notin m.g_oob

(* C24 with the length the histogram is meant to have in the place of the  *)
(* allocated length: every index addressed is below                        *)
(* MAXCLUSTERHITSBINS x MAXTOTBINS.                                        *)
C24_TotIndicesWithinBins == m.g_totIndexMax < MAXCLUSTERHITSBINS * MAXTOTBINS

(* A cluster was committed to the last bin of the ToT histogram.           *)
C24_LastBinCommitted ==
    /\ Returned
    /\ "clusterTots" \in m.g_oob
    /\ m.g_totIndexMax = clusterTotsAllocated


---------------------------------------------------------------------------
(* C25: with the per-hit annotation on, addHits writes to no slot of the   *)
(* annotation array at an index >= _clusterHitInfoSize: for a batch longer *)
(* than the array the fatal error comes before any such write.             *)
C25_AnnotationWritesInRange ==
    (InOrAfterAddHits /\ m.createClusterHitInfoArray) => "clusterHitInfo" \notin m.g_oob

(* addHits has written past the annotation array and then raised the fatal *)
(* error.                                                                  *)
C25_WrittenThenThrown ==
    /\ ctl.last = "threw"
    /\ m.createClusterHitInfoArray
    /\ "clusterHitInfo" \in m.g_oob
    /\ Len(m.hitInfo) > m.clusterHitInfoSize

============================================================================
